---------------------------- MODULE Spec2Model ----------------------------
(***************************************************************************)
(* A model of twisted.conch.endpoints (src/twisted/conch/endpoints.py):    *)
(* SSHCommandEndpoint with its two connection creators, the               *)
(* _CommandTransport state machine, the UserAuth credential offering, the  *)
(* _ConnectionReady service and the _CommandChannel.                       *)
(*                                                                         *)
(* The handlers of endpoints.py are translated one action each.  The SSH   *)
(* stack that calls them (SSHClientTransport, SSHUserAuthClient,           *)
(* SSHConnection, the reactor, the agent client) is not part of the file;  *)
(* its position in the exchange is the variables tcp, ssh, agentDial and   *)
(* chan, and it decides only WHEN a handler may be called.                 *)
(***************************************************************************)
EXTENDS Naturals, Sequences, FiniteSets

(* ------------------------------ bounds -------------------------------- *)

\* Longest local key list handed to newConnection.
MaxKeys == 2

\* Most keys an agent holds.
MaxAgentKeys == 2

\* Most times the server lets the client offer the password.
MaxPasswordOffers == 2

\* Commands run through one endpoint family (channels on one connection).
MaxCmds == 2

\* Connections made, one after the other, through one newConnection endpoint.
MaxConnections == 2

\* Most chunks of output one command sends.
MaxData == 2

\* The chunks a command's output is made of.
Data == {"a", "b"}

Keys == 1 .. MaxKeys

Cmds == 1 .. MaxCmds

\* The one connect call modelled for a newConnection endpoint.
NewCmd == 1

\* Reasons a reactor passes to connectionLost.
DisconnectReasons == {"ConnectionLost", "ConnectionDone"}

\* Reasons a known-hosts verifier fails with.
HostKeyReasons == {"HostKeyChanged", "UserRejectedKey"}

\* Reasons of a failed dial, a refused channel, a refused exec request.
DialErrors == {"ConnectionRefused"}

OpenFailures == {"ChannelOpenFailed"}

ExecFailures == {"ExecRejected"}

\* The commands endpoints are made for.
Commands == {"ls", "ps"}

\* SSHCommandEndpoint._command of the endpoint that connects command c.
_command == [c \in Cmds |-> IF c = NewCmd THEN "ls" ELSE "ps"]

\* The user name the connection was authenticated with (factory.username).
username == "user"

\* No SSHCommandAddress made yet.
NoAddress == [username |-> "None", command |-> "None"]

\* Failure(AuthenticationFailed("Doh"))
AuthenticationFailed == "AuthenticationFailed"

\* Python's None, where the value is otherwise a string.
None == "None"

\* All key lists of distinct keys, of length 0 .. MaxKeys.
KeyLists == { s \in UNION { [1 .. n -> Keys] : n \in 0 .. MaxKeys } :
                \A i, j \in DOMAIN s : i # j => s[i] # s[j] }

(* ------------------------------ state --------------------------------- *)

VARIABLES
    creator,            \* "new": _NewConnectionHelper, "existing": _ExistingConnectionHelper
    helper_keys,        \* _NewConnectionHelper.keys
    helper_password,    \* _NewConnectionHelper.password (None or a password)
    helper_agentEndpoint, \* _NewConnectionHelper.agentEndpoint (None or an endpoint)
    helper_connection,  \* _ExistingConnectionHelper.connection (None for a new connection)
    factory_command,    \* factory.command of the connection's transport
    attempt,            \* which connection of the endpoint the state is about
    popped,             \* keys the UserAuth of the connection before popped
    tcp,                \* the TCP connection under the SSH connection
    ssh,                \* how far the SSH exchange on the transport has come
    agentDial,          \* the agent connection attempt of _connectToAgent
    _state,             \* _CommandTransport._state
    _hostKeyFailure,    \* _CommandTransport._hostKeyFailure
    hostKeyDeferred,    \* the Deferred verifyHostKey returned
    connectionReady,    \* factory.connectionReady: None or the Deferred
    readyDeferred,      \* the Deferred secureConnection created (factory.connectionReady)
    ua_keys,            \* UserAuth.keys
    ua_key,             \* UserAuth.key (0: None)
    ua_agent,           \* UserAuth.agent (None or the agent)
    ua_password,        \* UserAuth.password
    agent_blobs,        \* the agent client's unoffered keys
    offered,            \* credentials sent to the server, in order
    requestService,     \* requestService(userauth) calls: [calls, afterLost]
    connectResult,      \* per command: the Deferred connect returned
    commandConnected,   \* per command: _CommandChannel._commandConnected
    chan,               \* per command: the channel's position
    _protocol,          \* per command: _CommandChannel._protocol
    log,                \* per command: what the endpoint and channel called, in order
    conn,               \* per command: the connection its channel was opened on
    received,           \* per command: the chunks the channel got from the connection
    delivered,          \* per command: the chunks given to the protocol's dataReceived
    address,            \* per command: the SSHCommandAddress given to buildProtocol
    lostReason,         \* the reason connectionLost was called with
    loseConnection,     \* loseConnection calls cleanupConnection made on the transport
    errors              \* exceptions raised out of a handler

vars == << creator, helper_keys, helper_password, helper_agentEndpoint, tcp, ssh,
           agentDial, _state, _hostKeyFailure, hostKeyDeferred, connectionReady,
           readyDeferred, ua_keys, ua_key, ua_agent, ua_password, agent_blobs,
           offered, requestService, connectResult, commandConnected, chan,
           _protocol, log, loseConnection, errors, helper_connection, conn,
           received, delivered, factory_command, address, lostReason,
           attempt, popped >>

helperVars == << creator, helper_keys, helper_password, helper_agentEndpoint,
                helper_connection, factory_command >>

authVars == << ua_keys, ua_key, ua_agent, ua_password, agent_blobs, offered >>

transportVars == << _state, _hostKeyFailure, hostKeyDeferred, lostReason >>

\* The helper, and the count of the connections made with it: no event of a
\* connection changes them.
endpointVars == << helperVars, attempt, popped >>

\* What a channel event leaves alone unless it says otherwise.
dataVars == << conn, received, delivered, address >>

channelVars == << commandConnected, chan, _protocol, log, dataVars >>

\* How often e occurs in the sequence s.
Count(s, e) == Cardinality({ i \in DOMAIN s : s[i] = e })

(* ----------------------------- Deferred ------------------------------- *)

\* A Deferred nobody has fired.  calls counts callback/errback invocations
\* (the second raises AlreadyCalledError), result is what the first one set.
NewDeferred == [calls |-> 0, kind |-> "pending", val |-> None]

\* No Deferred created yet.
NoDeferred == [calls |-> 0, kind |-> "none", val |-> None]

\* Deferred.callback(v) / Deferred.errback(v): the first call settles it.
Fire(d, k, v) ==
    IF d.calls = 0
    THEN [calls |-> 1, kind |-> k, val |-> v]
    ELSE [d EXCEPT !.calls = 2]

(* ------------------------------- Init --------------------------------- *)

\* SSHCommandEndpoint.newConnection: a _NewConnectionHelper holding the
\* credentials; nothing dialled yet.
newConnection ==
    /\ creator = "new"
    /\ helper_keys \in KeyLists
    /\ helper_password \in {None, "secret"}
    /\ helper_agentEndpoint \in {None, "agentEndpoint"}
    /\ helper_connection = None
    /\ factory_command = _command[NewCmd]
    /\ tcp = "idle"
    /\ ssh = "none"

\* SSHCommandEndpoint.existingConnection: an _ExistingConnectionHelper around
\* a connection that is already authenticated and running (one an earlier
\* newConnection endpoint made: its transport's factory has the attributes
\* _execSuccess reads).
existingConnection ==
    /\ creator = "existing"
    /\ helper_connection = "existingConnection"
    /\ factory_command \in Commands
    /\ helper_keys = << >>
    /\ helper_password = None
    /\ helper_agentEndpoint = None
    /\ tcp = "open"
    /\ ssh = "ready"

Init ==
    /\ newConnection \/ existingConnection
    /\ attempt = 1
    /\ popped = 0
    /\ agentDial = "none"
    /\ _state = "STARTING"
    /\ _hostKeyFailure = None
    /\ hostKeyDeferred = NoDeferred
    /\ connectionReady = None
    /\ readyDeferred = NoDeferred
    /\ ua_keys = << >>
    /\ ua_key = 0
    /\ ua_agent = None
    /\ ua_password = None
    /\ agent_blobs = << >>
    /\ offered = << >>
    /\ requestService = [calls |-> 0, afterLost |-> FALSE]
    /\ connectResult = [c \in Cmds |-> NoDeferred]
    /\ commandConnected = [c \in Cmds |-> NoDeferred]
    /\ chan = [c \in Cmds |-> "none"]
    /\ _protocol = [c \in Cmds |-> None]
    /\ log = [c \in Cmds |-> << >>]
    /\ conn = [c \in Cmds |-> None]
    /\ received = [c \in Cmds |-> << >>]
    /\ delivered = [c \in Cmds |-> << >>]
    /\ address = [c \in Cmds |-> NoAddress]
    /\ lostReason = None
    /\ loseConnection = 0
    /\ errors = {}

(* -------------------------- connection creators ----------------------- *)

\* _NewConnectionHelper.cleanupConnection: connection.transport.loseConnection()
NewConnectionHelper_cleanupConnection ==
    loseConnection' = loseConnection + 1

\* Faulty variant: the wrapped connection is closed, as a new one would be.
ExistingConnectionHelper_cleanupConnection_closes ==
    loseConnection' = loseConnection + 1

\* _ExistingConnectionHelper.cleanupConnection: the body is only a docstring.
ExistingConnectionHelper_cleanupConnection ==
    loseConnection' = loseConnection

\* self._creator.cleanupConnection(connection), dispatched on the creator.
cleanupConnection ==
    IF creator = "new"
    THEN NewConnectionHelper_cleanupConnection
    ELSE ExistingConnectionHelper_cleanupConnection

\* SSHCommandEndpoint._executeCommand: a fresh commandConnected Deferred with
\* disconnectOnFailure attached, a _CommandChannel, connection.openChannel.
_executeCommand(c, connection) ==
    /\ commandConnected' = [commandConnected EXCEPT ![c] = NewDeferred]
    /\ chan' = [chan EXCEPT ![c] = "opening"]
    /\ log' = [log EXCEPT ![c] = Append(@, "openChannel")]
    /\ conn' = [conn EXCEPT ![c] = connection]
    /\ UNCHANGED << _protocol, received, delivered, address >>

\* _NewConnectionHelper.secureConnection: a factory with a fresh
\* connectionReady Deferred, then the dial.
NewConnectionHelper_secureConnection ==
    /\ tcp = "idle"
    /\ tcp' = "dialing"
    /\ connectionReady' = "Deferred"
    /\ readyDeferred' = NewDeferred
    /\ UNCHANGED channelVars

\* Faulty variant: the Deferred returned has not fired yet.
ExistingConnectionHelper_secureConnection_pending(c) ==
    UNCHANGED << tcp, connectionReady, readyDeferred, channelVars >>

\* _ExistingConnectionHelper.secureConnection: succeed(self.connection), so
\* the callback connect adds, _executeCommand, runs at once.
ExistingConnectionHelper_secureConnection(c) ==
    /\ _executeCommand(c, helper_connection)
    /\ UNCHANGED << tcp, connectionReady, readyDeferred >>

\* SSHCommandEndpoint.connect, for the c-th command.
connect(c) ==
    /\ connectResult[c].kind = "none"
    /\ connectResult' = [connectResult EXCEPT ![c] = NewDeferred]
    /\ IF creator = "new"
       THEN c = NewCmd /\ NewConnectionHelper_secureConnection
       ELSE ExistingConnectionHelper_secureConnection(c)
    /\ UNCHANGED << endpointVars, ssh, agentDial, transportVars, authVars,
                    requestService, loseConnection, errors >>

\* Faulty variant: the dial error is reported through the ready Deferred.
dialFailed_failsReady(e) ==
    /\ tcp = "dialing"
    /\ tcp' = "failed"
    /\ readyDeferred' = Fire(readyDeferred, "fail", e)
    /\ connectResult' = [connectResult EXCEPT ![NewCmd] = Fire(@, "fail", e)]
    /\ UNCHANGED << endpointVars, ssh, agentDial, transportVars, connectionReady,
                    authVars, requestService, channelVars, loseConnection,
                    errors >>

\* The dial of TCP4ClientEndpoint fails: the Deferred of sshClient.connect,
\* which is the one connect returns, fails with the dial error.
dialFailed(e) ==
    /\ tcp = "dialing"
    /\ tcp' = "failed"
    /\ connectResult' = [connectResult EXCEPT ![NewCmd] = Fire(@, "fail", e)]
    /\ UNCHANGED << endpointVars, ssh, agentDial, transportVars, connectionReady,
                    readyDeferred, authVars, requestService, channelVars,
                    loseConnection, errors >>

\* The dial succeeds: a _CommandTransport is built and connected; the
\* callback `lambda ignored: factory.connectionReady` chains the returned
\* Deferred to the ready Deferred.
dialSucceeded ==
    /\ tcp = "dialing"
    /\ tcp' = "open"
    /\ ssh' = "kex"
    /\ UNCHANGED << endpointVars, agentDial, transportVars, connectionReady,
                    readyDeferred, authVars, requestService, connectResult,
                    channelVars, loseConnection, errors >>

\* Faulty variant: _executeCommand is added with addBoth, so it runs on a
\* setup failure too.
ReadyFired_addBoth(k, v) ==
    /\ readyDeferred' = Fire(readyDeferred, k, v)
    /\ IF readyDeferred.calls > 0
       THEN /\ errors' = errors \cup {"AlreadyCalledError"}
            /\ UNCHANGED << connectResult, channelVars >>
       ELSE /\ errors' = errors
            /\ _executeCommand(NewCmd, v)
            /\ UNCHANGED connectResult

\* The ready Deferred fires (callback or errback).  The Deferred connect
\* returned is chained to it: a failure fails it, a connection runs
\* _executeCommand.  A second firing raises AlreadyCalledError.
ReadyFired(k, v) ==
    /\ readyDeferred' = Fire(readyDeferred, k, v)
    /\ IF readyDeferred.calls > 0
       THEN /\ errors' = errors \cup {"AlreadyCalledError"}
            /\ UNCHANGED << connectResult, channelVars >>
       ELSE /\ errors' = errors
            /\ IF k = "fail"
               THEN /\ connectResult' =
                         [connectResult EXCEPT ![NewCmd] = Fire(@, "fail", v)]
                    /\ UNCHANGED channelVars
               ELSE /\ _executeCommand(NewCmd, v)
                    /\ UNCHANGED connectResult

(* --------------------------- _CommandTransport ------------------------ *)

\* tcp: "idle", "dialing", "failed", "open", "lost".
\* ssh: "none", then "kex" (waiting for the host key), "verifying" (the
\* verifier is asked), "rejected" or "newkeys", "agent" (the agent is being
\* connected), "service" (userauth requested), "offered" (a credential is
\* with the server), "stalled", "authed" and "ready" (the connection service
\* runs).  Every handler the transport calls needs tcp = "open"; Deferreds
\* of the verifier and of the agent fire whatever became of the transport.

\* _CommandTransport.verifyHostKey, called when the server's host key
\* arrives in the key exchange: the state becomes SECURING and the verifier
\* of the factory is asked; its Deferred, with _saveHostKeyFailure as
\* errback, is returned.
verifyHostKey ==
    /\ tcp = "open"
    /\ ssh = "kex"
    /\ _state' = "SECURING"
    /\ hostKeyDeferred' = NewDeferred
    /\ ssh' = "verifying"
    /\ UNCHANGED << endpointVars, tcp, lostReason, agentDial, _hostKeyFailure, connectionReady,
                    readyDeferred, authVars, requestService, connectResult,
                    channelVars, loseConnection, errors >>

\* The verifier accepts the key: the errback is skipped and the result is
\* passed through; the key exchange goes on.
hostKeyVerified ==
    /\ ssh = "verifying"
    /\ hostKeyDeferred' = Fire(hostKeyDeferred, "ok", "True")
    /\ ssh' = "newkeys"
    /\ UNCHANGED << endpointVars, tcp, lostReason, agentDial, _state, _hostKeyFailure,
                    connectionReady, readyDeferred, authVars, requestService,
                    connectResult, channelVars, loseConnection, errors >>

\* Faulty variant: the errback records the reason and returns nothing, so
\* the Deferred goes on as a success.
_saveHostKeyFailure_swallows(reason) ==
    /\ ssh = "verifying"
    /\ _hostKeyFailure' = reason
    /\ hostKeyDeferred' = Fire(hostKeyDeferred, "ok", None)
    /\ ssh' = "newkeys"
    /\ UNCHANGED << endpointVars, tcp, lostReason, agentDial, _state, connectionReady,
                    readyDeferred, authVars, requestService, connectResult,
                    channelVars, loseConnection, errors >>

\* _CommandTransport._saveHostKeyFailure, the errback of the verifier's
\* Deferred: record the reason and return it, so the Deferred stays failed.
\* The transport layer answers a failed verification with a disconnect.
_saveHostKeyFailure(reason) ==
    /\ ssh = "verifying"
    /\ _hostKeyFailure' = reason
    /\ hostKeyDeferred' = Fire(hostKeyDeferred, "fail", reason)
    /\ ssh' = "rejected"
    /\ UNCHANGED << endpointVars, tcp, lostReason, agentDial, _state, connectionReady,
                    readyDeferred, authVars, requestService, connectResult,
                    channelVars, loseConnection, errors >>

\* maybeGotAgent, the callback connectionSecure adds with addBoth:
\* self.requestService(userauth).
maybeGotAgent ==
    /\ requestService' = [calls |-> requestService.calls + 1,
                          afterLost |-> requestService.afterLost \/ tcp = "lost"]
    /\ ssh' = IF tcp = "open" THEN "service" ELSE ssh

\* Faulty variant: the UserAuth is built without the keys of the factory.
connectionSecure_noKeys ==
    /\ tcp = "open"
    /\ ssh = "newkeys"
    /\ _state' = "AUTHENTICATING"
    /\ ua_password' = helper_password
    /\ ua_keys' = << >>
    /\ maybeGotAgent
    /\ UNCHANGED << endpointVars, tcp, lostReason, agentDial, _hostKeyFailure, hostKeyDeferred,
                    connectionReady, readyDeferred, ua_key, ua_agent, agent_blobs,
                    offered, connectResult, channelVars, loseConnection, errors >>

\* Faulty variant: the UserAuth is given the list of the factory itself, which
\* the connection before has emptied.
connectionSecure_keysOnce ==
    /\ tcp = "open"
    /\ ssh = "newkeys"
    /\ _state' = "AUTHENTICATING"
    /\ ua_password' = helper_password
    /\ ua_keys' = IF attempt = 1 THEN helper_keys ELSE << >>
    /\ IF helper_agentEndpoint # None
       THEN /\ agentDial' = "dialing"
            /\ ssh' = "agent"
            /\ UNCHANGED requestService
       ELSE /\ maybeGotAgent
            /\ UNCHANGED agentDial
    /\ UNCHANGED << endpointVars, tcp, lostReason, _hostKeyFailure,
                    hostKeyDeferred, connectionReady, readyDeferred, ua_key,
                    ua_agent, agent_blobs, offered, connectResult, channelVars,
                    loseConnection, errors >>

\* _CommandTransport.connectionSecure, called when the key exchange is
\* complete: the state becomes AUTHENTICATING, a UserAuth is built with the
\* password and a copy of the keys, and the authentication service is
\* requested, after the agent connection if an agent endpoint is configured.
\* With no keys on the factory UserAuth.keys stays None, which getPublicKey
\* tests like an empty list: both are << >> here.
connectionSecure ==
    /\ tcp = "open"
    /\ ssh = "newkeys"
    /\ _state' = "AUTHENTICATING"
    /\ ua_password' = helper_password
    /\ ua_keys' = helper_keys
    /\ IF helper_agentEndpoint # None
       THEN /\ agentDial' = "dialing"
            /\ ssh' = "agent"
            /\ UNCHANGED requestService
       ELSE /\ maybeGotAgent
            /\ UNCHANGED agentDial
    /\ UNCHANGED << endpointVars, tcp, lostReason, _hostKeyFailure, hostKeyDeferred,
                    connectionReady, readyDeferred, ua_key, ua_agent, agent_blobs,
                    offered, connectResult, channelVars, loseConnection, errors >>

\* connected, the callback of the agent dial in _connectToAgent: attach the
\* agent to the UserAuth and ask it for its keys.
connected ==
    /\ agentDial = "dialing"
    /\ ua_agent' = "agent"
    /\ agentDial' = "fetching"
    /\ UNCHANGED << endpointVars, tcp, ssh, transportVars, connectionReady,
                    readyDeferred, ua_keys, ua_key, ua_password, agent_blobs,
                    offered, requestService, connectResult, channelVars,
                    loseConnection, errors >>

\* Faulty variant: maybeGotAgent is added with addCallback, so a failed
\* agent dial skips it.
agentDialFailed_noRequest ==
    /\ agentDial = "dialing"
    /\ agentDial' = "failed"
    /\ UNCHANGED << endpointVars, tcp, ssh, transportVars, connectionReady,
                    readyDeferred, authVars, requestService, connectResult,
                    channelVars, loseConnection, errors >>

\* The agent dial fails: connected is skipped, maybeGotAgent runs.
agentDialFailed ==
    /\ agentDial = "dialing"
    /\ agentDial' = "failed"
    /\ maybeGotAgent
    /\ UNCHANGED << endpointVars, tcp, transportVars, connectionReady,
                    readyDeferred, authVars, connectResult, channelVars,
                    loseConnection, errors >>

\* agent.getPublicKeys() completes with n keys (or fails, n = 0 and nothing
\* stored): maybeGotAgent runs.
agentGotPublicKeys(n) ==
    /\ agentDial = "fetching"
    /\ agentDial' = "done"
    /\ agent_blobs' = [i \in 1 .. n |-> i]
    /\ maybeGotAgent
    /\ UNCHANGED << endpointVars, tcp, transportVars, connectionReady,
                    readyDeferred, ua_keys, ua_key, ua_agent, ua_password,
                    offered, connectResult, channelVars, loseConnection, errors >>

\* Faulty variant: the recorded host-key failure is not surfaced.
connectionLostReason_ignoresHostKeyFailure(reason) ==
    IF _state = "AUTHENTICATING" THEN AuthenticationFailed ELSE reason

\* Faulty variant: a disconnect during authentication surfaces the raw reason.
connectionLostReason_noAuthenticationFailed(reason) ==
    IF _state = "SECURING" /\ _hostKeyFailure # None
    THEN _hostKeyFailure
    ELSE reason

\* Faulty variant: every disconnect without a host-key failure is reported
\* as an authentication failure.
connectionLostReason_onlyAuthenticationFailed(reason) ==
    IF _state = "SECURING" /\ _hostKeyFailure # None
    THEN _hostKeyFailure
    ELSE AuthenticationFailed

\* The reason _CommandTransport.connectionLost fails the ready Deferred
\* with, given the reason it was called with.
connectionLostReason(reason) ==
    IF _state = "SECURING" /\ _hostKeyFailure # None
    THEN _hostKeyFailure
    ELSE IF _state = "AUTHENTICATING"
         THEN AuthenticationFailed
         ELSE reason

\* Faulty variant: only the RUNNING state is tested, not the cleared reference.
connectionLost_onlyRunning(reason) ==
    /\ creator = "new"
    /\ tcp = "open"
    /\ tcp' = "lost"
    /\ lostReason' = reason
    /\ IF _state = "RUNNING"
       THEN UNCHANGED << readyDeferred, connectResult, channelVars, errors >>
       ELSE IF connectionReady = None
            THEN /\ errors' = errors \cup {"AttributeError: errback"}
                 /\ UNCHANGED << readyDeferred, connectResult, channelVars >>
            ELSE ReadyFired("fail", connectionLostReason(reason))
    /\ UNCHANGED << endpointVars, ssh, agentDial, _state, _hostKeyFailure,
                    hostKeyDeferred, connectionReady, authVars, requestService,
                    loseConnection >>

\* _CommandTransport.connectionLost, called once by the reactor when the
\* TCP connection is gone.
connectionLost(reason) ==
    /\ creator = "new"
    /\ tcp = "open"
    /\ tcp' = "lost"
    /\ lostReason' = reason
    /\ IF _state = "RUNNING" \/ connectionReady = None
       THEN UNCHANGED << readyDeferred, connectResult, channelVars, errors >>
       ELSE ReadyFired("fail", connectionLostReason(reason))
    /\ UNCHANGED << endpointVars, ssh, agentDial, _state, _hostKeyFailure,
                    hostKeyDeferred, connectionReady, authVars, requestService,
                    loseConnection >>

(* ------------------------------ UserAuth ------------------------------ *)

\* No key: getPublicKey returned None, or raised (None.public()), which
\* the authentication client takes as None too.
NoKey == [kind |-> "none", id |-> 0]

\* Faulty variant: the key list is popped from its end.
getPublicKey_popsLast(pk) ==
    IF ua_agent # None
    THEN /\ pk = IF agent_blobs # << >>
                 THEN [kind |-> "agent", id |-> Head(agent_blobs)]
                 ELSE NoKey
         /\ agent_blobs' = IF agent_blobs # << >> THEN Tail(agent_blobs) ELSE << >>
         /\ UNCHANGED << ua_keys, ua_key >>
    ELSE /\ IF ua_keys # << >>
            THEN /\ ua_key' = ua_keys[Len(ua_keys)]
                 /\ ua_keys' = SubSeq(ua_keys, 1, Len(ua_keys) - 1)
                 /\ pk = [kind |-> "key", id |-> ua_keys[Len(ua_keys)]]
            ELSE /\ ua_key' = 0
                 /\ ua_keys' = ua_keys
                 /\ pk = NoKey
         /\ UNCHANGED agent_blobs

\* Faulty variant: the local keys are tried before the agent is asked.
getPublicKey_localFirst(pk) ==
    IF ua_keys # << >>
    THEN /\ ua_key' = Head(ua_keys)
         /\ ua_keys' = Tail(ua_keys)
         /\ pk = [kind |-> "key", id |-> Head(ua_keys)]
         /\ UNCHANGED agent_blobs
    ELSE IF ua_agent # None
         THEN /\ pk = IF agent_blobs # << >>
                      THEN [kind |-> "agent", id |-> Head(agent_blobs)]
                      ELSE NoKey
              /\ agent_blobs' = IF agent_blobs # << >> THEN Tail(agent_blobs) ELSE << >>
              /\ UNCHANGED << ua_keys, ua_key >>
         ELSE /\ ua_key' = 0
              /\ pk = NoKey
              /\ UNCHANGED << ua_keys, agent_blobs >>

\* UserAuth.getPublicKey: pk is what it returns.  With an agent the agent's
\* next key (the agent client pops its own list); otherwise the head of
\* self.keys is popped into self.key, or self.key becomes None.
getPublicKey(pk) ==
    IF ua_agent # None
    THEN /\ pk = IF agent_blobs # << >>
                 THEN [kind |-> "agent", id |-> Head(agent_blobs)]
                 ELSE NoKey
         /\ agent_blobs' = IF agent_blobs # << >> THEN Tail(agent_blobs) ELSE << >>
         /\ UNCHANGED << ua_keys, ua_key >>
    ELSE /\ IF ua_keys # << >>
            THEN /\ ua_key' = Head(ua_keys)
                 /\ ua_keys' = Tail(ua_keys)
                 /\ pk = [kind |-> "key", id |-> Head(ua_keys)]
            ELSE /\ ua_key' = 0
                 /\ ua_keys' = ua_keys
                 /\ pk = NoKey
         /\ UNCHANGED agent_blobs

\* UserAuth.getPassword: succeed(self.password).
getPassword == ua_password

\* The credentials the model can offer.
Credentials ==
    [kind : {"agent"}, id : 1 .. MaxAgentKeys] \cup [kind : {"key"}, id : Keys]
        \cup {NoKey}

ThePassword == [kind |-> "password", id |-> 0]

\* The authentication client's answer to the server's USERAUTH_FAILURE (the
\* first one answers the "none" request): try publickey with getPublicKey,
\* and when that yields no key, password with getPassword.  A password of
\* None cannot be sent and the exchange stalls.
ssh_USERAUTH_FAILURE ==
    /\ tcp = "open"
    /\ ssh \in {"service", "offered"}
    /\ \E pk \in Credentials :
         /\ getPublicKey(pk)
         /\ IF pk # NoKey
            THEN /\ offered' = Append(offered, pk)
                 /\ ssh' = "offered"
            ELSE IF getPassword = None
                 THEN /\ offered' = offered
                      /\ ssh' = "stalled"
                 ELSE /\ Count(offered, ThePassword) < MaxPasswordOffers
                      /\ offered' = Append(offered, ThePassword)
                      /\ ssh' = "offered"
    /\ UNCHANGED << endpointVars, tcp, agentDial, transportVars, connectionReady,
                    readyDeferred, ua_agent, ua_password, requestService,
                    connectResult, channelVars, loseConnection, errors >>

\* Faulty variant: the wrong state constant is noted.
ssh_USERAUTH_SUCCESS_wrongState ==
    /\ tcp = "open"
    /\ ssh = "offered"
    /\ _state' = "SECURING"
    /\ ssh' = "authed"
    /\ UNCHANGED << endpointVars, tcp, lostReason, agentDial, _hostKeyFailure, hostKeyDeferred,
                    connectionReady, readyDeferred, authVars, requestService,
                    connectResult, channelVars, loseConnection, errors >>

\* UserAuth.ssh_USERAUTH_SUCCESS: the server accepted the credential offered.
ssh_USERAUTH_SUCCESS ==
    /\ tcp = "open"
    /\ ssh = "offered"
    /\ _state' = "CHANNELLING"
    /\ ssh' = "authed"
    /\ UNCHANGED << endpointVars, tcp, lostReason, agentDial, _hostKeyFailure, hostKeyDeferred,
                    connectionReady, readyDeferred, authVars, requestService,
                    connectResult, channelVars, loseConnection, errors >>

(* --------------------------- _ConnectionReady ------------------------- *)

\* Faulty variant: the reference to the Deferred is left on the factory.
serviceStarted_keepsReference ==
    /\ tcp = "open"
    /\ ssh = "authed"
    /\ ssh' = "ready"
    /\ connectionReady' = connectionReady
    /\ ReadyFired("ok", "connection")
    /\ UNCHANGED << endpointVars, tcp, agentDial, transportVars, authVars,
                    requestService, loseConnection >>

\* _ConnectionReady.serviceStarted: take the Deferred out of the factory,
\* leave None there, and fire it with the connection.
serviceStarted ==
    /\ tcp = "open"
    /\ ssh = "authed"
    /\ ssh' = "ready"
    /\ connectionReady' = None
    /\ IF connectionReady = None
       THEN /\ errors' = errors \cup {"AttributeError: callback"}
            /\ UNCHANGED << readyDeferred, connectResult, channelVars >>
       ELSE ReadyFired("ok", "connection")
    /\ UNCHANGED << endpointVars, tcp, agentDial, transportVars, authVars,
                    requestService, loseConnection >>

(* --------------------------- _CommandChannel -------------------------- *)

\* The channel's connection delivers events: the connection is established
\* and its transport has not been lost.
Connected == tcp = "open" /\ ssh = "ready"

\* Faulty variant: the failure is passed through without the cleanup.
disconnectOnFailure_noCleanup(c, reason) ==
    /\ UNCHANGED << log, loseConnection >>
    /\ connectResult' = [connectResult EXCEPT ![c] = Fire(@, "fail", reason)]

\* Faulty variant: the errback does not return the failure, so the Deferred
\* connect returned succeeds with None.
disconnectOnFailure_swallows(c, reason) ==
    /\ cleanupConnection
    /\ log' = [log EXCEPT ![c] = Append(@, "cleanupConnection")]
    /\ connectResult' = [connectResult EXCEPT ![c] = Fire(@, "ok", None)]

\* disconnectOnFailure, the errback _executeCommand adds to commandConnected:
\* clean the connection up and pass the failure through, to the Deferred
\* connect returned.
disconnectOnFailure(c, reason) ==
    /\ cleanupConnection
    /\ log' = [log EXCEPT ![c] = Append(@, "cleanupConnection")]
    /\ connectResult' = [connectResult EXCEPT ![c] = Fire(@, "fail", reason)]

\* self._commandConnected.errback(reason)
commandConnected_errback(c, reason) ==
    /\ commandConnected' = [commandConnected EXCEPT ![c] = Fire(@, "fail", reason)]
    /\ IF commandConnected[c].calls > 0
       THEN /\ errors' = errors \cup {"AlreadyCalledError"}
            /\ UNCHANGED << log, connectResult, loseConnection >>
       ELSE /\ errors' = errors
            /\ disconnectOnFailure(c, reason)

\* Faulty variant: the open failure is not reported.
openFailed_silent(c, reason) ==
    /\ Connected
    /\ chan[c] = "opening"
    /\ chan' = [chan EXCEPT ![c] = "openFailed"]
    /\ UNCHANGED << endpointVars, tcp, ssh, agentDial, transportVars,
                    connectionReady, readyDeferred, authVars, requestService,
                    connectResult, commandConnected, log, loseConnection,
                    errors, _protocol, dataVars >>

\* _CommandChannel.openFailed
openFailed(c, reason) ==
    /\ Connected
    /\ chan[c] = "opening"
    /\ chan' = [chan EXCEPT ![c] = "openFailed"]
    /\ commandConnected_errback(c, reason)
    /\ UNCHANGED << endpointVars, tcp, ssh, agentDial, transportVars,
                    connectionReady, readyDeferred, authVars, requestService,
                    _protocol, dataVars >>

\* _CommandChannel.channelOpen: send the exec request and wait for the reply.
channelOpen(c) ==
    /\ Connected
    /\ chan[c] = "opening"
    /\ chan' = [chan EXCEPT ![c] = "exec"]
    /\ log' = [log EXCEPT ![c] = Append(@, "sendRequest")]
    /\ UNCHANGED << endpointVars, tcp, ssh, agentDial, transportVars,
                    connectionReady, readyDeferred, authVars, requestService,
                    connectResult, commandConnected, _protocol, loseConnection,
                    errors, dataVars >>

\* _CommandChannel._execFailure: the channel stays open.
_execFailure(c, reason) ==
    /\ Connected
    /\ chan[c] = "exec"
    /\ chan' = [chan EXCEPT ![c] = "execFailed"]
    /\ commandConnected_errback(c, reason)
    /\ UNCHANGED << endpointVars, tcp, ssh, agentDial, transportVars,
                    connectionReady, readyDeferred, authVars, requestService,
                    _protocol, dataVars >>

\* Faulty variant: commandConnected fires before the protocol is connected
\* to the channel.
_execSuccess_callbackFirst(c) ==
    /\ Connected
    /\ chan[c] = "exec"
    /\ chan' = [chan EXCEPT ![c] = "running"]
    /\ _protocol' = [_protocol EXCEPT ![c] = "protocol"]
    /\ log' = [log EXCEPT ![c] = @ \o << "buildProtocol", "callback", "makeConnection" >>]
    /\ commandConnected' = [commandConnected EXCEPT ![c] = Fire(@, "ok", "protocol")]
    /\ connectResult' = [connectResult EXCEPT ![c] = Fire(@, "ok", "protocol")]
    /\ UNCHANGED << endpointVars, tcp, ssh, agentDial, transportVars,
                    connectionReady, readyDeferred, authVars, requestService,
                    loseConnection, errors, conn, received, delivered, address >>

\* _CommandChannel._execSuccess: build the protocol, connect it to the
\* channel, fire commandConnected with it.
_execSuccess(c) ==
    /\ Connected
    /\ chan[c] = "exec"
    /\ chan' = [chan EXCEPT ![c] = "running"]
    /\ _protocol' = [_protocol EXCEPT ![c] = "protocol"]
    /\ log' = [log EXCEPT ![c] = @ \o << "buildProtocol", "makeConnection", "callback" >>]
    /\ commandConnected' = [commandConnected EXCEPT ![c] = Fire(@, "ok", "protocol")]
    /\ connectResult' = IF commandConnected[c].calls = 0
                        THEN [connectResult EXCEPT ![c] = Fire(@, "ok", "protocol")]
                        ELSE connectResult
    /\ errors' = IF commandConnected[c].calls = 0
                 THEN errors
                 ELSE errors \cup {"AlreadyCalledError"}
    /\ address' = [address EXCEPT ![c] =
                       [username |-> username, command |-> factory_command]]
    /\ UNCHANGED << endpointVars, tcp, ssh, agentDial, transportVars,
                    connectionReady, readyDeferred, authVars, requestService,
                    loseConnection, conn, received, delivered >>

\* self._protocol.connectionLost(Failure(ConnectionDone("ssh channel closed")))
ProtocolLost == "connectionLost(ConnectionDone)"

\* The channel is open on the connection: the server may close it.
ChannelIsOpen(c) == chan[c] \in {"exec", "execFailed", "running"}

\* Faulty variant: every protocol on the connection is told of the close.
closed_notifiesAll(c) ==
    /\ Connected
    /\ ChannelIsOpen(c)
    /\ chan' = [chan EXCEPT ![c] = "closed"]
    /\ cleanupConnection
    /\ log' = [o \in Cmds |->
                 IF o = c
                 THEN Append(log[o], "cleanupConnection")
                 ELSE log[o]
                      \o (IF _protocol[o] = None THEN << >> ELSE << ProtocolLost >>)]
    /\ UNCHANGED << endpointVars, tcp, ssh, agentDial, transportVars,
                    connectionReady, readyDeferred, authVars, requestService,
                    connectResult, commandConnected, _protocol, dataVars,
                    errors >>

\* Faulty variant: the protocol is told of the close before the cleanup.
closed_notifiesFirst(c) ==
    /\ Connected
    /\ ChannelIsOpen(c)
    /\ chan' = [chan EXCEPT ![c] = "closed"]
    /\ cleanupConnection
    /\ IF _protocol[c] = None
       THEN /\ log' = log
            /\ errors' = errors \cup {"AttributeError: _protocol"}
       ELSE /\ log' = [log EXCEPT ![c] = @ \o << ProtocolLost, "cleanupConnection" >>]
            /\ errors' = errors
    /\ UNCHANGED << endpointVars, tcp, ssh, agentDial, transportVars,
                    connectionReady, readyDeferred, authVars, requestService,
                    connectResult, commandConnected, _protocol, dataVars >>

\* Faulty variant: the close is reported to commandConnected as well.
closed_errbacks(c) ==
    /\ Connected
    /\ ChannelIsOpen(c)
    /\ chan' = [chan EXCEPT ![c] = "closed"]
    /\ cleanupConnection
    /\ log' = [log EXCEPT ![c] = @ \o << "cleanupConnection", ProtocolLost >>]
    /\ commandConnected' = [commandConnected EXCEPT ![c] = Fire(@, "fail", "ConnectionDone")]
    /\ connectResult' = [connectResult EXCEPT ![c] = Fire(@, "fail", "ConnectionDone")]
    /\ UNCHANGED << endpointVars, tcp, ssh, agentDial, transportVars,
                    connectionReady, readyDeferred, authVars, requestService,
                    _protocol, dataVars, errors >>

\* _CommandChannel.closed: clean the connection up, then tell the protocol.
\* Without a protocol, self._protocol raises AttributeError.
closed(c) ==
    /\ Connected
    /\ ChannelIsOpen(c)
    /\ chan' = [chan EXCEPT ![c] = "closed"]
    /\ cleanupConnection
    /\ IF _protocol[c] = None
       THEN /\ log' = [log EXCEPT ![c] = Append(@, "cleanupConnection")]
            /\ errors' = errors \cup {"AttributeError: _protocol"}
       ELSE /\ log' = [log EXCEPT ![c] = @ \o << "cleanupConnection", ProtocolLost >>]
            /\ errors' = errors
    /\ UNCHANGED << endpointVars, tcp, ssh, agentDial, transportVars,
                    connectionReady, readyDeferred, authVars, requestService,
                    connectResult, commandConnected, _protocol, dataVars >>

\* The command runs on the server: its output arrives on the channel.  The
\* server answers the exec request before the command writes anything.
CommandRuns(c) == chan[c] = "running"

\* Faulty variant: the newest chunk is handed over ahead of the earlier ones.
dataReceived_newestFirst(c, data) ==
    /\ Connected
    /\ CommandRuns(c)
    /\ Len(received[c]) < MaxData
    /\ received' = [received EXCEPT ![c] = Append(@, data)]
    /\ delivered' = [delivered EXCEPT ![c] = << data >> \o @]
    /\ UNCHANGED << endpointVars, tcp, ssh, agentDial, transportVars,
                    connectionReady, readyDeferred, authVars, requestService,
                    connectResult, commandConnected, chan, _protocol, log, conn,
                    address, loseConnection, errors >>

\* _CommandChannel.dataReceived: hand the chunk to the protocol.  Without a
\* protocol, self._protocol raises AttributeError and the chunk is lost.
dataReceived(c, data) ==
    /\ Connected
    /\ CommandRuns(c)
    /\ Len(received[c]) < MaxData
    /\ received' = [received EXCEPT ![c] = Append(@, data)]
    /\ IF _protocol[c] = None
       THEN /\ errors' = errors \cup {"AttributeError: _protocol"}
            /\ UNCHANGED delivered
       ELSE /\ delivered' = [delivered EXCEPT ![c] = Append(@, data)]
            /\ errors' = errors
    /\ UNCHANGED << endpointVars, tcp, ssh, agentDial, transportVars,
                    connectionReady, readyDeferred, authVars, requestService,
                    connectResult, commandConnected, chan, _protocol, log, conn,
                    address, loseConnection >>

(* ---------------------------- specification --------------------------- *)

Next ==
    \/ \E c \in Cmds : connect(c)
    \/ \E e \in DialErrors : dialFailed(e)
    \/ dialSucceeded
    \/ verifyHostKey
    \/ hostKeyVerified
    \/ \E r \in HostKeyReasons : _saveHostKeyFailure(r)
    \/ connectionSecure
    \/ connected
    \/ agentDialFailed
    \/ \E n \in 0 .. MaxAgentKeys : agentGotPublicKeys(n)
    \/ \E r \in DisconnectReasons : connectionLost(r)
    \/ ssh_USERAUTH_FAILURE
    \/ ssh_USERAUTH_SUCCESS
    \/ serviceStarted
    \/ \E c \in Cmds, r \in OpenFailures : openFailed(c, r)
    \/ \E c \in Cmds : channelOpen(c)
    \/ \E c \in Cmds, r \in ExecFailures : _execFailure(c, r)
    \/ \E c \in Cmds : _execSuccess(c)
    \/ \E c \in Cmds, data \in Data : dataReceived(c, data)
    \/ \E c \in Cmds : closed(c)

Spec == Init /\ [][Next]_vars

\* Fair delivery: the reactor goes on delivering events while there is one
\* to deliver.
SpecFair == Init /\ [][Next]_vars /\ WF_vars(Next)

\* connect is called once more on the newConnection endpoint: the helper's
\* secureConnection makes a new factory, with the helper's keys, and dials.
\* The transport and the UserAuth of the connection before go on with their
\* own objects; the state is about the new connection from here on.
connectAgain ==
    /\ creator = "new"
    /\ connectResult[NewCmd] # NoDeferred
    /\ attempt < MaxConnections
    /\ attempt' = attempt + 1
    /\ popped' = Cardinality({i \in DOMAIN offered : offered[i].kind = "key"})
    /\ tcp' = "dialing"
    /\ ssh' = "none"
    /\ agentDial' = "none"
    /\ _state' = "STARTING"
    /\ _hostKeyFailure' = None
    /\ hostKeyDeferred' = NoDeferred
    /\ lostReason' = None
    /\ connectionReady' = "Deferred"
    /\ readyDeferred' = NewDeferred
    /\ ua_keys' = << >>
    /\ ua_key' = 0
    /\ ua_agent' = None
    /\ ua_password' = None
    /\ agent_blobs' = << >>
    /\ offered' = << >>
    /\ requestService' = [calls |-> 0, afterLost |-> FALSE]
    /\ connectResult' = [c \in Cmds |-> IF c = NewCmd THEN NewDeferred ELSE NoDeferred]
    /\ commandConnected' = [c \in Cmds |-> NoDeferred]
    /\ chan' = [c \in Cmds |-> "none"]
    /\ _protocol' = [c \in Cmds |-> None]
    /\ log' = [c \in Cmds |-> << >>]
    /\ conn' = [c \in Cmds |-> None]
    /\ received' = [c \in Cmds |-> << >>]
    /\ delivered' = [c \in Cmds |-> << >>]
    /\ address' = [c \in Cmds |-> NoAddress]
    /\ loseConnection' = 0
    /\ errors' = {}
    /\ UNCHANGED helperVars

NextReconnect == Next \/ connectAgain

\* The endpoint used for one connection after the other.
SpecReconnect == Init /\ [][NextReconnect]_vars

(* ------------------------------- claims ------------------------------- *)

Failed(d, reason) == d.kind = "fail" /\ d.val = reason

\* cleanupConnection calls made for command c.
Cleanups(c) == Count(log[c], "cleanupConnection")

\* The transport's connection is lost in this step.
LosesConnection == tcp = "open" /\ tcp' = "lost"

\* C1: the ready Deferred of the transport and the commandConnected Deferred
\* of every command are fired (callback or errback) at most once; no handler
\* fires one that is already settled.
C1_SettledAtMostOnce ==
    /\ readyDeferred.calls <= 1
    /\ \A c \in Cmds : commandConnected[c].calls <= 1
    /\ "AlreadyCalledError" \notin errors

\* C1 witness: the service started and resolved the ready Deferred, the exec
\* request was refused, the channel closed and the connection was lost.
C1_Witness ==
    /\ creator = "new"
    /\ tcp = "lost"
    /\ readyDeferred.kind = "ok"
    /\ commandConnected[NewCmd].kind = "fail"
    /\ chan[NewCmd] = "closed"

\* C2: when the connection is lost in state SECURING with a host-key failure
\* R recorded, the ready Deferred and the Deferred connect returned fail with
\* R, not with the reason given to connectionLost.
C2_HostKeyFailureSurfaced ==
    [][ (LosesConnection /\ _state = "SECURING" /\ _hostKeyFailure # None)
        => /\ readyDeferred'.calls = 1
           /\ Failed(readyDeferred', _hostKeyFailure)
           /\ Failed(connectResult'[NewCmd], _hostKeyFailure) ]_vars

\* C2 witness: the verifier failed, the connection was then lost in SECURING,
\* and connect's Deferred carries a host-key reason.
C2_Witness ==
    /\ tcp = "lost"
    /\ _state = "SECURING"
    /\ ssh = "rejected"
    /\ connectResult[NewCmd].kind = "fail"
    /\ connectResult[NewCmd].val \in HostKeyReasons

\* C3: when the connection is lost in state AUTHENTICATING with the ready
\* Deferred unsettled, the ready Deferred fails with AuthenticationFailed,
\* whatever reason connectionLost was given.
C3_AuthenticationFailedSurfaced ==
    [][ (LosesConnection /\ _state = "AUTHENTICATING" /\ readyDeferred.kind = "pending")
        => /\ readyDeferred'.calls = 1
           /\ Failed(readyDeferred', AuthenticationFailed)
           /\ Failed(connectResult'[NewCmd], AuthenticationFailed) ]_vars

\* C3 witness: a credential was offered, the connection was lost while
\* AUTHENTICATING and the ready Deferred failed with AuthenticationFailed.
C3_Witness ==
    /\ tcp = "lost"
    /\ _state = "AUTHENTICATING"
    /\ offered # << >>
    /\ Failed(readyDeferred, AuthenticationFailed)

\* C4: once serviceStarted has resolved the ready Deferred, a connectionLost
\* with any reason leaves the ready Deferred and the Deferred connect
\* returned as they are and raises nothing.
C4_NoSetupErrorAfterReady ==
    [][ (LosesConnection /\ readyDeferred.kind = "ok")
        => /\ readyDeferred' = readyDeferred
           /\ connectResult' = connectResult
           /\ commandConnected' = commandConnected
           /\ errors' = errors ]_vars

\* C4 witness: the connection was lost after the service had started.
C4_Witness ==
    /\ creator = "new"
    /\ tcp = "lost"
    /\ ssh = "ready"
    /\ readyDeferred.kind = "ok"
    /\ readyDeferred.calls = 1

\* The place of a state in STARTING -> SECURING -> AUTHENTICATING ->
\* CHANNELLING -> RUNNING.
Rank(st) ==
    CASE st = "STARTING" -> 0
      [] st = "SECURING" -> 1
      [] st = "AUTHENTICATING" -> 2
      [] st = "CHANNELLING" -> 3
      [] st = "RUNNING" -> 4

RECURSIVE OfKind(_, _)
OfKind(s, k) ==
    IF s = << >>
    THEN << >>
    ELSE IF Head(s).kind = k
         THEN << Head(s) >> \o OfKind(Tail(s), k)
         ELSE OfKind(Tail(s), k)

\* C6: without an agent, the keys offered are a prefix of the key list in its
\* order (so no key is offered twice), and the password is offered only after
\* every key of the list, never before a key.
C6_KeysInOrderBeforePassword ==
    (ua_agent = None /\ Rank(_state) >= 2)
    => LET ks == OfKind(offered, "key")
           ps == OfKind(offered, "password")
       IN  /\ Len(ks) <= Len(helper_keys)
           /\ \A i \in DOMAIN ks : ks[i].id = helper_keys[i]
           /\ offered = ks \o ps
           /\ (ps # << >> => Len(ks) = Len(helper_keys))

\* C6 witness: a list of two keys that is not in ascending order was offered
\* whole, and then the password.
C6_Witness ==
    /\ ua_agent = None
    /\ Len(helper_keys) >= 2
    /\ helper_keys[1] > helper_keys[2]
    /\ Len(OfKind(offered, "key")) = Len(helper_keys)
    /\ OfKind(offered, "password") # << >>

\* C7: no key of the local key list is offered before a key of the agent.
C7_AgentKeysFirst ==
    \A i, j \in DOMAIN offered :
        (offered[i].kind = "key" /\ offered[j].kind = "agent") => j < i

\* C7 witness: an agent with keys is attached next to a non-empty local key
\* list, and every key of the agent was offered.
C7_Witness ==
    /\ ua_agent # None
    /\ helper_keys # << >>
    /\ agentDial = "done"
    /\ agent_blobs = << >>
    /\ Len(OfKind(offered, "agent")) >= 2
    /\ ssh = "offered"

C9_CleanupAtMostOnce ==
    creator = "new" => (Cleanups(NewCmd) <= 1 /\ loseConnection <= 1)

\* C10: with the existing-connection strategy no cleanupConnection call closes
\* the wrapped connection.
C10_ExistingConnectionUntouched ==
    creator = "existing" => (loseConnection = 0 /\ tcp = "open")

\* C10 witness: on an existing connection one command was refused and its
\* channel closed, another ran and closed: three cleanupConnection calls.
C10_Witness ==
    /\ creator = "existing"
    /\ \E c, d \in Cmds :
         /\ c # d
         /\ Cleanups(c) = 2
         /\ Cleanups(d) = 1
         /\ _protocol[d] # None

\* Calls of kind e made for command c.
Called(c, e) == Count(log[c], e) > 0

\* The setup of the new connection failed: the dial failed, or the ready
\* Deferred failed (host key rejected, authentication failed, disconnect).
SetupFailed == tcp = "failed" \/ readyDeferred.kind = "fail"

\* C11: on a new connection openChannel is called only after the Deferred of
\* secureConnection fired with a connection, and on that connection; once
\* the setup failed no channel is opened.
C11_ChannelOnlyAfterReady ==
    creator = "new" =>
        /\ \A c \in Cmds :
              (chan[c] # "none" \/ Called(c, "openChannel")) =>
                  /\ readyDeferred.kind = "ok"
                  /\ conn[c] = readyDeferred.val
                  /\ conn[c] # None
        /\ SetupFailed =>
              \A c \in Cmds : chan[c] = "none" /\ log[c] = << >> /\ conn[c] = None

\* The host key was rejected, connect failed and there is no channel.
C11_Witness ==
    /\ creator = "new"
    /\ _hostKeyFailure \in HostKeyReasons
    /\ Failed(readyDeferred, _hostKeyFailure)
    /\ Failed(connectResult[NewCmd], _hostKeyFailure)
    /\ chan[NewCmd] = "none"

\* The server rejected the exec request of command c.
ExecRejected(c) == commandConnected[c].kind = "fail" /\ Called(c, "sendRequest")

\* C12: when the server rejects the exec request with reason R, connect's
\* Deferred fails with R, cleanupConnection was called and no protocol is
\* built for the command.
C12_ExecRejectedPassedThrough ==
    \A c \in Cmds :
        ExecRejected(c) =>
            /\ commandConnected[c].val \in ExecFailures
            /\ Failed(connectResult[c], commandConnected[c].val)
            /\ connectResult[c].calls = 1
            /\ Cleanups(c) >= 1
            /\ ~Called(c, "buildProtocol")
            /\ _protocol[c] = None

C12_Witness ==
    \E c \in Cmds :
        /\ chan[c] = "execFailed"
        /\ Failed(connectResult[c], "ExecRejected")
        /\ Cleanups(c) = 1

\* C13: when opening the channel fails with reason R, connect's Deferred
\* fails with R, no exec request is sent and no protocol is built.
C13_OpenFailedPassedThrough ==
    \A c \in Cmds :
        chan[c] = "openFailed" =>
            /\ commandConnected[c].val \in OpenFailures
            /\ Failed(commandConnected[c], commandConnected[c].val)
            /\ Failed(connectResult[c], commandConnected[c].val)
            /\ ~Called(c, "sendRequest")
            /\ ~Called(c, "buildProtocol")
            /\ _protocol[c] = None

C13_Witness ==
    \E c \in Cmds :
        /\ chan[c] = "openFailed"
        /\ Failed(connectResult[c], "ChannelOpenFailed")

\* Position of the first e in the calls made for command c (0: none).
FirstCall(c, e) ==
    IF Called(c, e)
    THEN CHOOSE i \in 1 .. Len(log[c]) :
             /\ log[c][i] = e
             /\ \A j \in 1 .. (i - 1) : log[c][j] # e
    ELSE 0

\* C14: connect's Deferred succeeds only with the one protocol the channel
\* built, and only after makeConnection was called on that protocol.
C14_ProtocolConnectedBeforeResult ==
    \A c \in Cmds :
        /\ Count(log[c], "buildProtocol") <= 1
        /\ Called(c, "callback") =>
              /\ 0 < FirstCall(c, "buildProtocol")
              /\ FirstCall(c, "buildProtocol") < FirstCall(c, "makeConnection")
              /\ FirstCall(c, "makeConnection") < FirstCall(c, "callback")
        /\ connectResult[c].kind = "ok" =>
              /\ Called(c, "callback")
              /\ Count(log[c], "makeConnection") = 1
              /\ connectResult[c].val = _protocol[c]
              /\ _protocol[c] # None

C14_Witness ==
    \E c \in Cmds :
        /\ connectResult[c].kind = "ok"
        /\ connectResult[c].val = "protocol"
        /\ chan[c] = "running"

Closes(c) == chan[c] # "closed" /\ chan'[c] = "closed"

\* What a command's protocol and caller have seen of it.
View(c) == << chan[c], _protocol[c], log[c], received[c], delivered[c],
              connectResult[c], commandConnected[c], conn[c] >>

\* C16: on an existing connection each protocol gets the data of its own
\* channel only, the close of one channel is told to its protocol alone and
\* changes nothing for the other commands, and the shared connection is
\* never closed.
C16_ChannelsIndependent ==
    /\ [](creator = "existing" =>
             /\ loseConnection = 0
             /\ \A c \in Cmds :
                   /\ delivered[c] = received[c]
                   /\ Count(log[c], ProtocolLost) =
                          (IF chan[c] = "closed" /\ _protocol[c] # None THEN 1 ELSE 0))
    /\ [][creator = "existing" =>
             \A c \in Cmds :
                 Closes(c) =>
                     /\ tcp' = tcp /\ ssh' = ssh
                     /\ \A o \in Cmds \ {c} : View(o)' = View(o)]_vars

\* One command's channel is closed after its output was delivered, the
\* other's is running with its own output on the connection still open.
C16_Witness ==
    /\ creator = "existing"
    /\ \E c \in Cmds, o \in Cmds :
         /\ chan[c] = "closed" /\ Called(c, ProtocolLost)
         /\ chan[o] = "running" /\ Connected
         /\ delivered[c] # << >> /\ delivered[o] # << >>
         /\ delivered[c] # delivered[o]

\* C17: a channel close after connect's Deferred succeeded with a protocol
\* is one connectionLost call on that protocol, with ConnectionDone, and the
\* Deferred is not fired again or changed.
C17_CloseGoesToProtocol ==
    /\ [](\A c \in Cmds :
             /\ Count(log[c], ProtocolLost) <= 1
             /\ (chan[c] = "closed" /\ connectResult[c].kind = "ok") =>
                   /\ Count(log[c], ProtocolLost) = 1
                   /\ connectResult[c] = [calls |-> 1, kind |-> "ok", val |-> _protocol[c]]
                   /\ commandConnected[c].calls = 1)
    /\ [][\A c \in Cmds :
             (Closes(c) /\ connectResult[c].kind = "ok") =>
                 /\ log'[c] = log[c] \o << "cleanupConnection", "connectionLost(ConnectionDone)" >>
                 /\ connectResult'[c] = connectResult[c]
                 /\ commandConnected'[c] = commandConnected[c]]_vars

C17_Witness ==
    \E c \in Cmds :
        /\ chan[c] = "closed"
        /\ connectResult[c].kind = "ok"
        /\ Count(log[c], ProtocolLost) = 1

\* One key, no password and no agent were configured.
OneKeyOnly ==
    /\ creator = "new"
    /\ helper_agentEndpoint = None
    /\ helper_password = None
    /\ Len(helper_keys) = 1

\* The server rejected what was offered, nothing is left to offer, and the
\* connection was dropped.
AuthenticationGivenUp == ssh = "stalled" /\ tcp = "lost"

C19_DialFailurePassedThrough ==
    tcp = "failed" =>
        /\ connectResult[NewCmd].val \in DialErrors
        /\ Failed(connectResult[NewCmd], connectResult[NewCmd].val)
        /\ connectResult[NewCmd].calls = 1
        /\ readyDeferred = NewDeferred
        /\ loseConnection = 0
        /\ \A c \in Cmds : log[c] = << >> /\ chan[c] = "none"

C19_Witness ==
    /\ tcp = "failed"
    /\ Failed(connectResult[NewCmd], "ConnectionRefused")

\* C20: the Deferred of _ExistingConnectionHelper.secureConnection has
\* fired when it is returned (the channel is opened within connect), with
\* the connection the helper was given, the same one for every call.
C20_ExistingConnectionAtOnce ==
    creator = "existing" =>
        /\ helper_connection # None
        /\ readyDeferred = NoDeferred
        /\ \A c \in Cmds :
              connectResult[c] # NoDeferred =>
                  /\ chan[c] # "none"
                  /\ Called(c, "openChannel")
                  /\ conn[c] = helper_connection

\* Two calls of connect got the helper's connection.
C20_Witness ==
    /\ creator = "existing"
    /\ \E c \in Cmds : \E o \in Cmds \ {c} :
         /\ conn[c] = helper_connection
         /\ conn[o] = helper_connection
         /\ chan[c] = "opening"

\* C21 as stated: once the connection service has started the state is
\* RUNNING, the ready Deferred has fired with the connection and the
\* reference to it on the factory is None.
C21_RunningAfterServiceStarted ==
    (creator = "new" /\ ssh = "ready") =>
        /\ _state = "RUNNING"
        /\ connectionReady = None
        /\ readyDeferred = [calls |-> 1, kind |-> "ok", val |-> "connection"]

\* The agent is attached and has no further key to offer: the password was
\* offered, or there was none to offer.
AgentUsedUp ==
    /\ ua_agent # None
    /\ agentDial = "done"
    /\ agent_blobs = << >>
    /\ (OfKind(offered, "password") # << >> \/ ssh = "stalled")

\* C22 as stated: with an agent attached, the keys of the local key list are
\* offered in order after the agent's keys, and the password only after
\* both.
C22_LocalKeysAfterAgent ==
    AgentUsedUp =>
        LET ks == OfKind(offered, "key")
        IN  /\ Len(ks) = Len(helper_keys)
            /\ \A i \in DOMAIN ks : ks[i].id = helper_keys[i]

\* C23 as stated: the password is offered at most once in an authentication
\* attempt, and nothing is offered after it.
C23_PasswordOfferedOnce ==
    /\ Count(offered, ThePassword) <= 1
    /\ \A i \in DOMAIN offered : offered[i] = ThePassword => i = Len(offered)

\* The ready Deferred has not fired and the state makes connectionLost pass
\* its reason on.
PlainDisconnectState ==
    /\ creator = "new"
    /\ tcp = "open"
    /\ readyDeferred = NewDeferred
    /\ \/ _state \in {"STARTING", "CHANNELLING"}
       \/ _state = "SECURING" /\ _hostKeyFailure = None

\* C24: a disconnect before the ready Deferred fired, in state STARTING,
\* CHANNELLING, or SECURING with no host-key failure recorded, fails the
\* ready Deferred, and connect's, with the reason connectionLost was given.
C24_PlainDisconnectReason ==
    [][(PlainDisconnectState /\ tcp' = "lost") =>
           /\ lostReason' \in DisconnectReasons
           /\ readyDeferred' = [calls |-> 1, kind |-> "fail", val |-> lostReason']
           /\ Failed(connectResult'[NewCmd], lostReason')]_vars

\* The connection was lost with ConnectionDone while the verifier was asked.
C24_Witness ==
    /\ tcp = "lost"
    /\ _state = "SECURING"
    /\ _hostKeyFailure = None
    /\ lostReason = "ConnectionDone"
    /\ Failed(readyDeferred, "ConnectionDone")

\* The agent connection has come to its end, one way or the other.
AgentSettled == agentDial \in {"done", "failed"}

\* C25: after connectionSecure the authentication service is requested once:
\* at once without an agent endpoint, and with one when the agent dial and
\* the fetch of its keys are over, however they ended.  After a failed agent
\* dial no agent is attached and only local keys and the password are
\* offered.
C25_ServiceRequestedOnce ==
    creator = "new" =>
        /\ requestService.calls <= 1
        /\ requestService.calls = 1 <=>
              /\ Rank(_state) >= 2
              /\ helper_agentEndpoint = None \/ AgentSettled
        /\ helper_agentEndpoint = None => agentDial = "none"
        /\ agentDial = "failed" =>
              /\ ua_agent = None
              /\ OfKind(offered, "agent") = << >>

\* The agent dial failed and a local key was offered.
C25_Witness ==
    /\ agentDial = "failed"
    /\ requestService.calls = 1
    /\ OfKind(offered, "key") # << >>

\* C26: when the verifier fails with reason R the Deferred verifyHostKey
\* returned fails with R and R is the recorded host-key failure; when the
\* verifier succeeds nothing is recorded and its result is passed through.
C26_HostKeyFailureRecorded ==
    /\ hostKeyDeferred.calls <= 1
    /\ ssh = "rejected" =>
          /\ _hostKeyFailure \in HostKeyReasons
          /\ Failed(hostKeyDeferred, _hostKeyFailure)
    /\ _hostKeyFailure # None => Failed(hostKeyDeferred, _hostKeyFailure)
    /\ hostKeyDeferred.kind = "ok" =>
          /\ _hostKeyFailure = None
          /\ hostKeyDeferred.val = "True"

C26_Witness ==
    /\ _hostKeyFailure = "UserRejectedKey"
    /\ Failed(hostKeyDeferred, "UserRejectedKey")

\* C27: on a channel close cleanupConnection is called before the protocol's
\* connectionLost: the call just before each connectionLost is the cleanup.
C27_CleanupBeforeProtocolLost ==
    \A c \in Cmds :
        /\ \A i \in DOMAIN log[c] :
              log[c][i] = ProtocolLost =>
                  i > 1 /\ log[c][i - 1] = "cleanupConnection"
        /\ chan[c] = "closed" => Cleanups(c) >= 1

C27_Witness ==
    \E c \in Cmds :
        /\ chan[c] = "closed"
        /\ Called(c, ProtocolLost)
        /\ Cleanups(c) = 1

\* C28 as stated: the address given to buildProtocol has the command of the
\* endpoint that opened the channel and the user name of the connection.
C28_AddressOfEndpoint ==
    \A c \in Cmds :
        address[c] # NoAddress =>
            /\ address[c].command = _command[c]
            /\ address[c].username = username

\* C30 as stated: when dataReceived or closed runs on a channel, its protocol
\* has been built and connected.
C30_ProtocolExistsWhenUsed ==
    /\ "AttributeError: _protocol" \notin errors
    /\ \A c \in Cmds :
          (chan[c] = "closed" \/ received[c] # << >>) =>
              /\ _protocol[c] # None
              /\ Called(c, "makeConnection")

\* The local keys offered on this connection, as the key list names them.
KeysOffered ==
    LET ks == OfKind(offered, "key")
    IN  [i \in DOMAIN ks |-> ks[i].id]

Settled(c) == connectResult[c].kind \in {"ok", "fail"}

\* connect was called for command c, the dial is over, and the connection
\* was lost or the channel of the command closed.
LostOrClosed(c) ==
    /\ connectResult[c] # NoDeferred
    /\ tcp \in {"open", "lost"}
    /\ tcp = "lost" \/ chan[c] = "closed"

\* C31 as stated: with events delivered fairly, once the connection is lost
\* or the channel closed, the Deferred connect returned comes to a result or
\* a failure.
C31_EventuallySettled ==
    \A c \in Cmds : LostOrClosed(c) ~> Settled(c)

\* C32 as stated: requestService is never called on a transport after its
\* connectionLost.
C32_NoRequestAfterLost ==
    /\ [](~requestService.afterLost)
    /\ [][(tcp = "lost" /\ creator = "new") =>
             requestService'.calls = requestService.calls]_vars

=============================================================================
